---------------------------- MODULE Spec2Model ----------------------------
(***************************************************************************)
(* Model of src/js/blog.js: the blog listing page (filterable card grid,   *)
(* detail modal with related posts, asynchronous load of the posts).       *)
(*                                                                         *)
(* Strings are sequences of one-character strings, so that case folding,   *)
(* trimming, substring search, entity escaping and decoding are computed   *)
(* character by character as the JavaScript does.  The JavaScript values   *)
(* null / undefined are the one-element sequence Null.                     *)
(***************************************************************************)
EXTENDS Integers, Sequences, FiniteSets, TLC

\* ------------------------------------------------------------------ bounds

MaxLoads == 2         \* invocations of loadPosts in one page lifetime
MaxPosts == 2         \* length of a collection the data source returns
MaxQueryLen == 2      \* length of a search query fed to passesFilters
MaxEscapes == 6       \* times an upstream layer re-escaped a content string
MaxRelated == 3       \* largest max passed to getRelatedPosts
MaxCollection == 3    \* length of a collection fed to getRelatedPosts

\* -------------------------------------------------------- JavaScript values

Null == <<"NULL">>

\* `v || ''` on an optional string: null, undefined and '' all give ''
OrEmpty(v) == IF v = Null THEN <<>> ELSE v

\* truthiness of an optional string
Truthy(v) == v # Null /\ v # <<>>

IsSpace(c) == c \in {" ", "\n"}

UpperCase ==
    <<"A", "B", "C", "D", "E", "F", "G", "H", "I", "J", "K", "L", "M",
      "N", "O", "P", "Q", "R", "S", "T", "U", "V", "W", "X", "Y", "Z">>

LowerCase ==
    <<"a", "b", "c", "d", "e", "f", "g", "h", "i", "j", "k", "l", "m",
      "n", "o", "p", "q", "r", "s", "t", "u", "v", "w", "x", "y", "z">>

IsLetter(c) == \E i \in 1..Len(UpperCase) : c = UpperCase[i] \/ c = LowerCase[i]

IsDigit(c) == c \in {"0", "1", "2", "3", "4", "5", "6", "7", "8", "9"}

ToLowerChar(c) ==
    IF \E i \in 1..Len(UpperCase) : c = UpperCase[i]
    THEN LowerCase[CHOOSE i \in 1..Len(UpperCase) : c = UpperCase[i]]
    ELSE c

\* String.prototype.toLowerCase
ToLowerCase(s) == IF s = <<>> THEN <<>> ELSE [i \in 1..Len(s) |-> ToLowerChar(s[i])]

RECURSIVE TrimStart(_)
TrimStart(s) == IF s # <<>> /\ IsSpace(Head(s)) THEN TrimStart(Tail(s)) ELSE s

RECURSIVE TrimEnd(_)
TrimEnd(s) ==
    IF s # <<>> /\ IsSpace(s[Len(s)]) THEN TrimEnd(SubSeq(s, 1, Len(s) - 1)) ELSE s

\* String.prototype.trim
Trim(s) == TrimEnd(TrimStart(s))

\* s.replace(/\s+/g, ' '): every maximal run of whitespace becomes one space
RECURSIVE CollapseSpaces(_)
CollapseSpaces(s) ==
    IF s = <<>> THEN <<>>
    ELSE IF IsSpace(Head(s)) THEN <<" ">> \o CollapseSpaces(TrimStart(s))
    ELSE <<Head(s)>> \o CollapseSpaces(Tail(s))

\* does pat occur in s at position i
StartsWithAt(s, i, pat) ==
    /\ i >= 1
    /\ i + Len(pat) - 1 <= Len(s)
    /\ SubSeq(s, i, i + Len(pat) - 1) = pat

\* String.prototype.includes
Includes(s, pat) == \E i \in 1..(Len(s) + 1) : StartsWithAt(s, i, pat)

\* Array.prototype.includes
ArrayIncludes(arr, v) == \E i \in 1..Len(arr) : arr[i] = v

\* s.replace(/c/g, rep) for a one-character pattern c
RECURSIVE ReplaceAll(_, _, _)
ReplaceAll(s, c, rep) ==
    IF s = <<>> THEN <<>>
    ELSE (IF Head(s) = c THEN rep ELSE <<Head(s)>>) \o ReplaceAll(Tail(s), c, rep)

\* ------------------------------------------------- HTML character references

\* The named references spelled with the letters of the model's alphabet.  All
\* four are in HTML's legacy list: they are decoded with or without the ";".
NamedRefs ==
    << [name |-> <<"a", "m", "p">>, char |-> "&"],
       [name |-> <<"l", "t">>, char |-> "<"],
       [name |-> <<"g", "t">>, char |-> ">"],
       [name |-> <<"q", "u", "o", "t">>, char |-> "\""] >>

\* the character of a decimal code point (those the model's inputs spell)
CharOfCode(n) ==
    CASE n = 34 -> "\""
      [] n = 38 -> "&"
      [] n = 39 -> "'"
      [] n = 60 -> "<"
      [] n = 62 -> ">"
      [] OTHER -> "?"

DigitValue(c) ==
    CASE c = "0" -> 0 [] c = "1" -> 1 [] c = "2" -> 2 [] c = "3" -> 3 [] c = "4" -> 4
      [] c = "5" -> 5 [] c = "6" -> 6 [] c = "7" -> 7 [] c = "8" -> 8 [] OTHER -> 9

\* end of the run of digits starting at i (i - 1 when there is none)
RECURSIVE DigitsEnd(_, _)
DigitsEnd(s, i) == IF i <= Len(s) /\ IsDigit(s[i]) THEN DigitsEnd(s, i + 1) ELSE i - 1

RECURSIVE DecimalValue(_, _, _)
DecimalValue(s, i, j) ==
    IF i > j THEN 0 ELSE DecimalValue(s, i, j - 1) * 10 + DigitValue(s[j])

\* The character reference at s[i] = "&", as the HTML tokenizer consumes it in
\* text: the decoded text and the position after it.  "&" that starts no
\* reference stays a literal "&".
CharRef(s, i) ==
    LET named == {k \in 1..Len(NamedRefs) : StartsWithAt(s, i + 1, NamedRefs[k].name)}
        semi(j) == IF j <= Len(s) /\ s[j] = ";" THEN j + 1 ELSE j
    IN  IF named # {} THEN
            LET k == CHOOSE k \in named : TRUE
            IN  [text |-> <<NamedRefs[k].char>>,
                 next |-> semi(i + 1 + Len(NamedRefs[k].name))]
        ELSE IF StartsWithAt(s, i + 1, <<"#">>) /\ DigitsEnd(s, i + 2) >= i + 2 THEN
            LET j == DigitsEnd(s, i + 2)
            IN  [text |-> <<CharOfCode(DecimalValue(s, i + 2, j))>>, next |-> semi(j + 1)]
        ELSE [text |-> <<"&">>, next |-> i + 1]

\* textarea.innerHTML = s; textarea.value: the content of a textarea is
\* RCDATA, in which character references are decoded and "<" is text
RECURSIVE TextareaValue(_, _)
TextareaValue(s, i) ==
    IF i > Len(s) THEN <<>>
    ELSE IF s[i] = "&" THEN
        LET r == CharRef(s, i) IN r.text \o TextareaValue(s, r.next)
    ELSE <<s[i]>> \o TextareaValue(s, i + 1)

\* position of the ">" that ends the tag opened before i (0: none, end of input)
RECURSIVE TagEnd(_, _)
TagEnd(s, i) == IF i > Len(s) THEN 0 ELSE IF s[i] = ">" THEN i ELSE TagEnd(s, i + 1)

\* div.innerHTML = s; div.textContent: start tags ("<" and a letter, up to the
\* next ">") leave no text, an unterminated tag swallows the rest of the
\* input, character references are decoded, everything else is text
RECURSIVE TextContent(_, _)
TextContent(s, i) ==
    IF i > Len(s) THEN <<>>
    ELSE IF s[i] = "<" /\ i < Len(s) /\ IsLetter(s[i + 1]) THEN
        LET j == TagEnd(s, i + 1) IN IF j = 0 THEN <<>> ELSE TextContent(s, j + 1)
    ELSE IF s[i] = "&" THEN
        LET r == CharRef(s, i) IN r.text \o TextContent(s, r.next)
    ELSE <<s[i]>> \o TextContent(s, i + 1)

\* ------------------------------------------------------------ text helpers

getPlainText(html) == Trim(CollapseSpaces(TextContent(OrEmpty(html), 1)))

ExcerptMaxLength == 220

createExcerpt(html) ==
    LET cleaned == getPlainText(html)
    IN  IF Len(cleaned) <= ExcerptMaxLength THEN cleaned
        ELSE Trim(SubSeq(cleaned, 1, ExcerptMaxLength)) \o <<"...">>

AmpEntity == <<"&", "a", "m", "p", ";">>
LtEntity == <<"&", "l", "t", ";">>
GtEntity == <<"&", "g", "t", ";">>
QuotEntity == <<"&", "q", "u", "o", "t", ";">>
AposEntity == <<"&", "#", "3", "9", ";">>

escapeHtml(str) ==
    ReplaceAll(
        ReplaceAll(
            ReplaceAll(
                ReplaceAll(ReplaceAll(OrEmpty(str), "&", AmpEntity), "<", LtEntity),
                ">", GtEntity),
            "\"", QuotEntity),
        "'", AposEntity)

MaxDecodeIterations == 5

\* /&(lt|gt|amp|quot|#39);/i.test(s)
HasRecognizedEntity(s) ==
    LET low == ToLowerCase(s)
    IN  \E e \in {AmpEntity, LtEntity, GtEntity, QuotEntity, AposEntity} : Includes(low, e)

\* (one pass, no loop)
DecodeSinglePass(prev, done) == TextareaValue(prev, 1)

\* the do-while loop: one more pass while fewer than 5 were made, the last one
\* changed the text and a recognizable entity is left
RECURSIVE DecodeLoop(_, _)
DecodeLoop(prev, done) ==
    LET current == TextareaValue(prev, 1)
        iterations == done + 1
    IN  IF iterations < MaxDecodeIterations /\ current # prev /\ HasRecognizedEntity(current)
        THEN DecodeLoop(current, iterations)
        ELSE current

decodeHtmlEntities(str) == DecodeLoop(OrEmpty(str), 0)

\* ------------------------------------------------------------- view state

VARIABLES
    allPosts,          \* let allPosts
    selectedCategory,  \* let selectedCategory
    selectedTag,       \* let selectedTag
    searchQuery,       \* let searchQuery
    loadingHidden,     \* #blog-loading has class hidden
    errorHidden,       \* #blog-error has class hidden
    errorText,         \* #blog-error textContent
    grid,              \* #blog-posts: its cards, or the placeholder
    categoryButtons,   \* #category-filters: button value -> drawn active
    tagButtons,        \* #tag-filters: button value -> drawn active
    modalHidden,       \* #blog-modal has class hidden
    modalFlex,         \* #blog-modal has class flex
    noScroll,          \* body has class no-scroll
    modalContent,      \* #blog-modal-content: <<>> or <<what openBlogModal wrote>>
    started,           \* invocations of loadPosts so far
    awaiting,          \* invocations suspended at their await
    tagClicks,         \* the run of clicks on one tag button that just happened
    race,              \* the loads that ran concurrently, and how they have ended
    callArgs,          \* arguments of a direct call of a helper
    callResult         \* what that call returned

vars ==
    <<allPosts, selectedCategory, selectedTag, searchQuery, loadingHidden, errorHidden,
      errorText, grid, categoryButtons, tagButtons, modalHidden, modalFlex, noScroll,
      modalContent,
      started, awaiting, tagClicks, race, callArgs, callResult>>

viewState == <<allPosts, selectedCategory, selectedTag, searchQuery>>
indicators == <<loadingHidden, errorHidden, errorText>>
filterControls == <<categoryButtons, tagButtons>>
modal == <<modalHidden, modalFlex, noScroll, modalContent>>
loader == <<started, awaiting>>
harness == <<callArgs, callResult>>

\* -------------------------------------------------------------------- posts

\* post.tags when it is no array
NullTags == << <<"NULL", "NULL">> >>

AllCategory == <<"a", "l", "l">>

DefaultLabel == <<"I", "n", "s", "i", "g", "h", "t">>

\* The rows the data source can hold.  Slugs are unique (the posts table's
\* key); titles and authors carry characters escapeHtml rewrites; contents are
\* HTML, entity-escaped HTML and absent; categories differ in case, tags in
\* case and in more than case.
Post1 ==
    [slug |-> <<"1">>, title |-> <<"A", "<", "b">>,
     content |-> <<"<", "b", ">", "a", " ", "\n", "b">>,
     category |-> <<"T">>, tags |-> << <<"x">> >>, author |-> <<"A", "&", "b">>]

Post2 ==
    [slug |-> <<"2">>, title |-> <<"b", "&">>,
     content |-> LtEntity \o <<"b">> \o GtEntity \o <<"a">>,
     category |-> <<"t">>, tags |-> << <<"X">>, <<"y">> >>, author |-> Null]

Post3 ==
    [slug |-> <<"3">>, title |-> Null, content |-> Null,
     category |-> Null, tags |-> NullTags, author |-> <<"c">>]

PostPool == {Post1, Post2, Post3}

\* sequences of up to n distinct rows of pool
CollectionsOf(pool, n) ==
    {c \in UNION {[1..k -> pool] : k \in 0..n} :
        \A i, j \in DOMAIN c : i # j => c[i].slug # c[j].slug}

\* what the query `from('posts').select(...)` resolves to: { data, error }
\* (an error comes with no data, or with data all the same)
Responses ==
    {[isArray |-> TRUE, data |-> d, error |-> FALSE] : d \in CollectionsOf(PostPool, MaxPosts)}
    \cup {[isArray |-> FALSE, data |-> <<>>, error |-> e] : e \in BOOLEAN}
    \cup {[isArray |-> TRUE, data |-> <<Post1>>, error |-> TRUE]}

\* what the user can type into #blog-search (null: an input with no value)
SearchInputs == {Null, <<" ">>, <<"A", "<">>}

\* the elements of the hosting page, by id: the page of the DOM contract
Document ==
    {"blog-posts", "blog-loading", "blog-error", "category-filters", "tag-filters",
     "blog-search", "blog-modal", "blog-modal-content", "blog-modal-backdrop",
     "blog-modal-close"}

getElementById(id) == id \in Document

ServiceErrorMessage == "Unable to load insights right now. Please try again later."
UnexpectedErrorMessage == "Something went wrong while loading insights."

\* Array.isArray(post.tags) ? post.tags : []
TagsOf(post) == IF post.tags = NullTags THEN <<>> ELSE post.tags

\* String(t)
StringOf(t) == IF t = Null THEN <<"n", "u", "l", "l">> ELSE t

\* tags.map(t => String(t).toLowerCase())
LowerTags(post) ==
    LET tags == TagsOf(post)
    IN  IF tags = <<>> THEN <<>> ELSE [i \in 1..Len(tags) |-> ToLowerCase(StringOf(tags[i]))]

\* tags.filter(Boolean)
RECURSIVE FilterTruthy(_)
FilterTruthy(tags) ==
    IF tags = <<>> THEN <<>>
    ELSE (IF Truthy(Head(tags)) THEN <<Head(tags)>> ELSE <<>>) \o FilterTruthy(Tail(tags))

\* ---------------------------------------------------------------- filtering

\* The filters read the globals selectedCategory, selectedTag and searchQuery:
\* here they are the parameters category, tag and query, and allPosts is the
\* parameter posts, so that a handler can render the state it leaves.

CategoryPasses(post, category) ==
    (Truthy(category) /\ category # AllCategory)
        => ToLowerCase(OrEmpty(post.category)) = ToLowerCase(category)

TagPasses(post, tag) ==
    Truthy(tag) => ArrayIncludes(LowerTags(post), ToLowerCase(tag))

\* (title and text joined with nothing between them)
HaystackNoSeparator(post) == ToLowerCase(OrEmpty(post.title) \o getPlainText(post.content))

Haystack(post) == ToLowerCase(OrEmpty(post.title) \o <<" ">> \o getPlainText(post.content))

SearchPasses(post, query) ==
    Truthy(Trim(query)) => Includes(Haystack(post), ToLowerCase(query))

passesFilters(post, category, tag, query) ==
    CategoryPasses(post, category) /\ TagPasses(post, tag) /\ SearchPasses(post, query)

\* ------------------------------------------------------------ related posts

\* currentTags.filter(t => pTags.includes(t)).length
RECURSIVE SharedTagCount(_, _)
SharedTagCount(currentTags, pTags) ==
    IF currentTags = <<>> THEN 0
    ELSE (IF ArrayIncludes(pTags, Head(currentTags)) THEN 1 ELSE 0)
         + SharedTagCount(Tail(currentTags), pTags)

TagWeight == 2
CategoryBump == 1

Score(currentPost, p) ==
    LET currentCategory == ToLowerCase(OrEmpty(currentPost.category))
        pCategory == ToLowerCase(OrEmpty(p.category))
    IN  SharedTagCount(LowerTags(currentPost), LowerTags(p)) * TagWeight
        + (IF Truthy(currentCategory) /\ pCategory = currentCategory THEN CategoryBump ELSE 0)

\* allPosts.filter(p => p.slug !== currentPost.slug)
Others(posts, currentPost) == SelectSeq(posts, LAMBDA p : p.slug # currentPost.slug)

\* (a sort that puts a tie in front)
RECURSIVE InsertByScoreUnstable(_, _)
InsertByScoreUnstable(sorted, item) ==
    IF sorted = <<>> THEN <<item>>
    ELSE IF Head(sorted).score > item.score
        THEN <<Head(sorted)>> \o InsertByScoreUnstable(Tail(sorted), item)
        ELSE <<item>> \o sorted

\* put item behind every element that scores at least as much
RECURSIVE InsertByScore(_, _)
InsertByScore(sorted, item) ==
    IF sorted = <<>> THEN <<item>>
    ELSE IF Head(sorted).score >= item.score
        THEN <<Head(sorted)>> \o InsertByScore(Tail(sorted), item)
        ELSE <<item>> \o sorted

\* (no sort at all)
SortByScoreSkipped(scored) == scored

\* scored.sort((a, b) => b.score - a.score): descending, stable
RECURSIVE SortByScore(_)
SortByScore(scored) ==
    IF scored = <<>> THEN <<>>
    ELSE InsertByScore(SortByScore(SubSeq(scored, 1, Len(scored) - 1)), scored[Len(scored)])

\* arr.slice(0, max)
Slice(arr, max) == SubSeq(arr, 1, IF max < Len(arr) THEN max ELSE Len(arr))

getRelatedPosts(posts, currentPost, max) ==
    IF posts = <<>> THEN <<>>
    ELSE
        LET others == Others(posts, currentPost)
            items == IF others = <<>> THEN <<>>
                     ELSE [i \in 1..Len(others) |->
                              [post |-> others[i], score |-> Score(currentPost, others[i])]]
            scored == SelectSeq(items, LAMBDA item : item.score > 0)
            top == Slice(SortByScore(scored), max)
        IN  IF scored # <<>>
            THEN (IF top = <<>> THEN <<>> ELSE [i \in 1..Len(top) |-> top[i].post])
            ELSE Slice(others, max)

\* ---------------------------------------------------------------- rendering

\* the card renderPosts builds for one post
Card(post) ==
    [post |-> post,
     categoryHtml |-> escapeHtml(IF Truthy(post.category) THEN post.category ELSE DefaultLabel),
     titleHtml |-> escapeHtml(post.title),
     tagsHtml |-> FilterTruthy(TagsOf(post)),
     excerptHtml |-> createExcerpt(post.content)]

\* allPosts.filter(passesFilters)
VisiblePosts(posts, category, tag, query) ==
    SelectSeq(posts, LAMBDA p : passesFilters(p, category, tag, query))

\* #blog-posts after renderPosts: one card per visible post, or the placeholder
RenderedGrid(posts, category, tag, query) ==
    LET visible == VisiblePosts(posts, category, tag, query)
    IN  [cards |-> IF visible = <<>> THEN <<>>
                   ELSE [i \in 1..Len(visible) |-> Card(visible[i])],
         placeholder |-> visible = <<>>]

\* renderPosts(), run at the end of a handler: it reads the view state the
\* handler leaves
renderPosts(posts, category, tag, query) ==
    IF getElementById("blog-posts")
    THEN /\ loadingHidden' = (IF getElementById("blog-loading") THEN TRUE ELSE loadingHidden)
         /\ errorHidden' = (IF getElementById("blog-error") THEN TRUE ELSE errorHidden)
         /\ grid' = RenderedGrid(posts, category, tag, query)
    ELSE UNCHANGED <<loadingHidden, errorHidden, grid>>

\* /<([a-z][\s\S]*?)>/i.test(s.trim())
LooksLikeHtml(s) ==
    \E i \in 1..Len(s) : s[i] = "<" /\ i < Len(s) /\ IsLetter(s[i + 1]) /\ TagEnd(s, i + 2) # 0

\* allPosts.find(p => p.slug === slug): <<the post>>, or <<>> for undefined
FindBySlug(posts, slug) ==
    LET found == SelectSeq(posts, LAMBDA p : p.slug = slug)
    IN  IF found = <<>> THEN <<>> ELSE <<found[1]>>

\* one button of the "Related insights" section
RelatedEntry(posts, r) ==
    [post |-> r,
     slugAttr |-> r.slug,
     titleHtml |-> OrEmpty(r.title),
     handler |-> FindBySlug(posts, r.slug)]

ModalRelatedMax == 3

\* what openBlogModal writes into #blog-modal-content
ModalContent(posts, post) ==
    LET related == getRelatedPosts(posts, post, ModalRelatedMax)
        decoded == decodeHtmlEntities(post.content)
    IN  [post |-> post,
         categoryHtml |-> escapeHtml(IF Truthy(post.category) THEN post.category
                                     ELSE DefaultLabel),
         tagsHtml |-> FilterTruthy(TagsOf(post)),
         titleHtml |-> escapeHtml(post.title),
         decodedContent |-> decoded,
         looksLikeHtml |-> LooksLikeHtml(Trim(decoded)),
         authorHtml |-> IF Truthy(post.author) THEN escapeHtml(post.author) ELSE <<>>,
         related |-> IF related = <<>> THEN <<>>
                     ELSE [i \in 1..Len(related) |-> RelatedEntry(posts, related[i])]]

openBlogModal(post) ==
    IF getElementById("blog-modal") /\ getElementById("blog-modal-content")
    THEN /\ modalContent' = <<ModalContent(allPosts, post)>>
         /\ modalHidden' = FALSE
         /\ modalFlex' = TRUE
         /\ noScroll' = TRUE
    ELSE UNCHANGED modal

\* (a close that leaves the page's scroll lock on)
closeBlogModalKeepsScroll ==
    /\ modalHidden' = TRUE
    /\ modalFlex' = FALSE
    /\ UNCHANGED <<noScroll, modalContent>>

closeBlogModal ==
    IF getElementById("blog-modal")
    THEN /\ modalHidden' = TRUE
         /\ modalFlex' = FALSE
         /\ noScroll' = FALSE
         /\ UNCHANGED modalContent
    ELSE UNCHANGED modal

\* ----------------------------------------------------------- filter controls

\* the distinct truthy categories of the loaded posts
CategorySet(posts) == {posts[i].category : i \in {k \in DOMAIN posts : Truthy(posts[k].category)}}

\* the distinct truthy tags of the loaded posts
TagSet(posts) ==
    UNION {{TagsOf(posts[i])[k] : k \in {m \in DOMAIN TagsOf(posts[i]) :
                                            Truthy(TagsOf(posts[i])[m])}} : i \in DOMAIN posts}

CategoryIsActive(value, category) ==
    LET v == ToLowerCase(IF Truthy(value) THEN value ELSE AllCategory)
    IN  \/ (category = AllCategory /\ (v = AllCategory \/ v = <<>>))
        \/ (category # AllCategory /\ v = ToLowerCase(category))

TagIsActive(value, tag) == Truthy(tag) /\ ToLowerCase(OrEmpty(value)) = ToLowerCase(tag)

\* updateFilterButtonStates(), on the buttons given
updateFilterButtonStates(cats, tags, category, tag) ==
    /\ categoryButtons' = [v \in cats |-> CategoryIsActive(v, category)]
    /\ tagButtons' = [v \in tags |-> TagIsActive(v, tag)]

\* buildFilterButtons(): the "all" button, one button per category and per tag
buildFilterButtons(posts, category, tag) ==
    IF getElementById("category-filters") /\ getElementById("tag-filters")
    THEN updateFilterButtonStates({AllCategory} \cup CategorySet(posts), TagSet(posts),
                                  category, tag)
    ELSE UNCHANGED filterControls

\* ------------------------------------------------------------------- events

\* The page as it is when the script starts: nothing loaded, the default
\* selections, the modal of the page's markup hidden and the body scrollable,
\* the two indicators either way.

NoTagClicks == [tag |-> Null, priorTag |-> Null, clicks |-> 0]

\* no invocation of loadPosts has met another one in flight
NoRace == [active |-> FALSE, before |-> <<>>, outcomes |-> <<>>]

\* loadPosts() is invoked: with an invocation in flight the two run
\* concurrently, and allPosts as it is then is what they started from
raceStarts ==
    race' = IF awaiting = 0 THEN NoRace
            ELSE IF race.active THEN race
            ELSE [active |-> TRUE, before |-> allPosts, outcomes |-> <<>>]

\* an invocation running concurrently with another completes: how it ended
raceRecords(ready, posts, message) ==
    race' = IF race.active
            THEN [race EXCEPT !.outcomes =
                     Append(@, [ready |-> ready, posts |-> posts, message |-> message])]
            ELSE race

\* a user event: with nothing in flight, what ran concurrently is over
raceSettles == race' = IF awaiting = 0 THEN NoRace ELSE race

Init ==
    /\ allPosts = <<>>
    /\ selectedCategory = AllCategory
    /\ selectedTag = Null
    /\ searchQuery = <<>>
    /\ loadingHidden \in BOOLEAN
    /\ errorHidden \in BOOLEAN
    /\ errorText = ""
    /\ grid = [cards |-> <<>>, placeholder |-> FALSE]
    /\ categoryButtons = <<>>
    /\ tagButtons = <<>>
    /\ modalHidden = TRUE
    /\ modalFlex = FALSE
    /\ noScroll = FALSE
    /\ modalContent = <<>>
    /\ started = 0
    /\ awaiting = 0
    /\ tagClicks = NoTagClicks
    /\ race = NoRace
    /\ callArgs = <<>>
    /\ callResult = <<>>

\* the DOMContentLoaded handler has run: the listeners are registered
wired == started > 0

\* loadPosts() up to its await: show the loading indicator, hide the error
\* indicator, send the query
loadPosts ==
    /\ started < MaxLoads
    /\ started' = started + 1
    /\ awaiting' = awaiting + 1
    /\ loadingHidden' = (IF getElementById("blog-loading") THEN FALSE ELSE loadingHidden)
    /\ errorHidden' = (IF getElementById("blog-error") THEN TRUE ELSE errorHidden)
    /\ tagClicks' = NoTagClicks
    /\ raceStarts
    /\ UNCHANGED <<viewState, errorText, grid, filterControls, modal, harness>>

\* the DOMContentLoaded handler: the first loadPosts() and the listeners
DOMContentLoaded ==
    /\ ~wired
    /\ loadPosts

\* a further invocation of loadPosts() by the page
LoadPostsAgain ==
    /\ wired
    /\ loadPosts

\* a query resolves with no error: the success path
LoadSucceeds(resp) ==
    /\ awaiting > 0
    /\ ~resp.error
    /\ allPosts' = (IF resp.isArray THEN resp.data ELSE <<>>)
    /\ UNCHANGED <<selectedCategory, selectedTag, searchQuery>>
    /\ awaiting' = awaiting - 1
    /\ tagClicks' = NoTagClicks
    /\ raceRecords(TRUE, allPosts', "")
    /\ UNCHANGED <<errorText, modal, started, harness>>
    /\ buildFilterButtons(allPosts', selectedCategory, selectedTag)
    /\ renderPosts(allPosts', selectedCategory, selectedTag, searchQuery)

\* (an error branch that empties the loaded posts)
LoadServiceErrorClearsPosts(resp) ==
    /\ awaiting > 0
    /\ resp.error
    /\ allPosts' = <<>>
    /\ errorText' = ServiceErrorMessage
    /\ errorHidden' = FALSE
    /\ loadingHidden' = TRUE
    /\ awaiting' = awaiting - 1
    /\ tagClicks' = NoTagClicks
    /\ raceRecords(FALSE, <<>>, ServiceErrorMessage)
    /\ UNCHANGED <<selectedCategory, selectedTag, searchQuery, grid, filterControls, modal,
                   started, harness>>

\* a query resolves with an error: the `if (error)` branch
LoadServiceError(resp) ==
    /\ awaiting > 0
    /\ resp.error
    /\ errorText' = (IF getElementById("blog-error") THEN ServiceErrorMessage ELSE errorText)
    /\ errorHidden' = (IF getElementById("blog-error") THEN FALSE ELSE errorHidden)
    /\ loadingHidden' = (IF getElementById("blog-loading") THEN TRUE ELSE loadingHidden)
    /\ awaiting' = awaiting - 1
    /\ tagClicks' = NoTagClicks
    /\ raceRecords(FALSE, <<>>, ServiceErrorMessage)
    /\ UNCHANGED <<viewState, grid, filterControls, modal, started, harness>>

\* (a catch block that shows the service-error message)
LoadThrowsServiceMessage ==
    /\ awaiting > 0
    /\ loadingHidden' = TRUE
    /\ errorText' = ServiceErrorMessage
    /\ errorHidden' = FALSE
    /\ awaiting' = awaiting - 1
    /\ tagClicks' = NoTagClicks
    /\ raceRecords(FALSE, <<>>, ServiceErrorMessage)
    /\ UNCHANGED <<viewState, grid, filterControls, modal, started, harness>>

\* a query throws or rejects: the catch block
LoadThrows ==
    /\ awaiting > 0
    /\ loadingHidden' = (IF getElementById("blog-loading") THEN TRUE ELSE loadingHidden)
    /\ errorText' = (IF getElementById("blog-error") THEN UnexpectedErrorMessage ELSE errorText)
    /\ errorHidden' = (IF getElementById("blog-error") THEN FALSE ELSE errorHidden)
    /\ awaiting' = awaiting - 1
    /\ tagClicks' = NoTagClicks
    /\ raceRecords(FALSE, <<>>, UnexpectedErrorMessage)
    /\ UNCHANGED <<viewState, grid, filterControls, modal, started, harness>>

\* (a category handler that keeps the selected tag)
CategoryClickKeepsTag(cat) ==
    /\ cat \in DOMAIN categoryButtons
    /\ selectedCategory' = cat
    /\ UNCHANGED <<allPosts, selectedTag, searchQuery>>
    /\ tagClicks' = NoTagClicks
    /\ raceSettles
    /\ UNCHANGED <<errorText, modal, loader, harness>>
    /\ updateFilterButtonStates(DOMAIN categoryButtons, DOMAIN tagButtons,
                                selectedCategory', selectedTag)
    /\ renderPosts(allPosts, selectedCategory', selectedTag, searchQuery)

\* click on a category button; the "all" button carries the value 'all'
CategoryClick(cat) ==
    /\ cat \in DOMAIN categoryButtons
    /\ selectedCategory' = cat
    /\ selectedTag' = Null
    /\ UNCHANGED <<allPosts, searchQuery>>
    /\ tagClicks' = NoTagClicks
    /\ raceSettles
    /\ UNCHANGED <<errorText, modal, loader, harness>>
    /\ updateFilterButtonStates(DOMAIN categoryButtons, DOMAIN tagButtons,
                                selectedCategory', selectedTag')
    /\ renderPosts(allPosts, selectedCategory', selectedTag', searchQuery)

\* (a toggle that compares the raw strings)
ToggleTagCaseSensitive(current, tag) == IF current = tag THEN Null ELSE tag

\* selectedTag after a click on the button of tag
ToggleTag(current, tag) ==
    LET cur == IF Truthy(current) THEN ToLowerCase(current) ELSE Null
        value == ToLowerCase(tag)
    IN  IF cur = value THEN Null ELSE tag

\* click on a tag button
TagClick(tag) ==
    /\ tag \in DOMAIN tagButtons
    /\ selectedTag' = ToggleTag(selectedTag, tag)
    /\ UNCHANGED <<allPosts, selectedCategory, searchQuery>>
    /\ tagClicks' = IF tagClicks.clicks = 1 /\ tagClicks.tag = tag
                    THEN [tagClicks EXCEPT !.clicks = 2]
                    ELSE [tag |-> tag, priorTag |-> selectedTag, clicks |-> 1]
    /\ raceSettles
    /\ UNCHANGED <<errorText, modal, loader, harness>>
    /\ updateFilterButtonStates(DOMAIN categoryButtons, DOMAIN tagButtons,
                                selectedCategory, selectedTag')
    /\ renderPosts(allPosts, selectedCategory, selectedTag', searchQuery)

\* (a search handler that forgets to render)
SearchInputNoRender(value) ==
    /\ wired
    /\ searchQuery' = OrEmpty(value)
    /\ tagClicks' = NoTagClicks
    /\ raceSettles
    /\ UNCHANGED <<allPosts, selectedCategory, selectedTag, indicators, grid,
                   filterControls, modal, loader, harness>>

\* input event on #blog-search
SearchInput(value) ==
    /\ wired
    /\ getElementById("blog-search")
    /\ searchQuery' = OrEmpty(value)
    /\ UNCHANGED <<allPosts, selectedCategory, selectedTag>>
    /\ tagClicks' = NoTagClicks
    /\ raceSettles
    /\ UNCHANGED <<errorText, filterControls, modal, loader, harness>>
    /\ renderPosts(allPosts, selectedCategory, selectedTag, searchQuery')

\* click on card k of the grid (the modal, when shown, covers the grid)
CardClick(k) ==
    /\ k \in DOMAIN grid.cards
    /\ modalHidden
    /\ tagClicks' = NoTagClicks
    /\ raceSettles
    /\ UNCHANGED <<viewState, indicators, grid, filterControls, loader, harness>>
    /\ openBlogModal(grid.cards[k].post)

\* keypress on card k: Enter and Space open the post, other keys do nothing
CardKeypress(k, key) ==
    /\ k \in DOMAIN grid.cards
    /\ tagClicks' = NoTagClicks
    /\ raceSettles
    /\ UNCHANGED <<viewState, indicators, grid, filterControls, loader, harness>>
    /\ IF key \in {"Enter", " "}
       THEN openBlogModal(grid.cards[k].post)
       ELSE UNCHANGED modal

\* click on entry k of the modal's related posts, when it got a handler
RelatedClick(k) ==
    /\ ~modalHidden
    /\ modalContent # <<>>
    /\ k \in DOMAIN modalContent[1].related
    /\ modalContent[1].related[k].handler # <<>>
    /\ tagClicks' = NoTagClicks
    /\ raceSettles
    /\ UNCHANGED <<viewState, indicators, grid, filterControls, loader, harness>>
    /\ openBlogModal(modalContent[1].related[k].handler[1])

\* keydown on the document: Escape closes the modal
Keydown(key) ==
    /\ wired
    /\ IF key = "Escape" THEN closeBlogModal ELSE UNCHANGED modal
    /\ tagClicks' = NoTagClicks
    /\ raceSettles
    /\ UNCHANGED <<viewState, indicators, grid, filterControls, loader, harness>>

\* click on the backdrop of the shown modal
BackdropClick ==
    /\ wired
    /\ getElementById("blog-modal-backdrop")
    /\ ~modalHidden
    /\ closeBlogModal
    /\ tagClicks' = NoTagClicks
    /\ raceSettles
    /\ UNCHANGED <<viewState, indicators, grid, filterControls, loader, harness>>

\* click on the close control of the shown modal
CloseClick ==
    /\ wired
    /\ getElementById("blog-modal-close")
    /\ ~modalHidden
    /\ closeBlogModal
    /\ tagClicks' = NoTagClicks
    /\ raceSettles
    /\ UNCHANGED <<viewState, indicators, grid, filterControls, loader, harness>>

Keys == {"Enter", " ", "Escape", "a"}

Next ==
    \/ DOMContentLoaded
    \/ LoadPostsAgain
    \/ \E resp \in Responses : LoadSucceeds(resp)
    \/ \E resp \in Responses : LoadServiceError(resp)
    \/ LoadThrows
    \/ \E cat \in DOMAIN categoryButtons : CategoryClick(cat)
    \/ \E tag \in DOMAIN tagButtons : TagClick(tag)
    \/ \E value \in SearchInputs : SearchInput(value)
    \/ \E k \in DOMAIN grid.cards : CardClick(k)
    \/ \E k \in DOMAIN grid.cards, key \in Keys : CardKeypress(k, key)
    \/ \E k \in 1..ModalRelatedMax : RelatedClick(k)
    \/ \E key \in Keys : Keydown(key)
    \/ BackdropClick
    \/ CloseClick

Spec == Init /\ [][Next]_vars

\* ------------------------------------------- direct calls of passesFilters

\* the page before DOMContentLoaded, whatever the view state
IdlePage ==
    /\ loadingHidden = FALSE
    /\ errorHidden = TRUE
    /\ errorText = ""
    /\ grid = [cards |-> <<>>, placeholder |-> FALSE]
    /\ categoryButtons = <<>>
    /\ tagButtons = <<>>
    /\ modalHidden = TRUE
    /\ modalFlex = FALSE
    /\ noScroll = FALSE
    /\ modalContent = <<>>
    /\ started = 0
    /\ awaiting = 0
    /\ tagClicks = NoTagClicks
    /\ race = NoRace

page == <<indicators, grid, filterControls, modal, loader, tagClicks, race>>

\* all strings over alphabet of length at most n
StringsUpTo(alphabet, n) == UNION {[1..k -> alphabet] : k \in 0..n}

FilterTitles == {Null, <<"a">>, <<"A", "b">>}
FilterContents == {Null, <<"b">>, <<"<", "b", ">", "B", " ", "\n", "a">>}
FilterCategories == {Null, <<"T">>, <<"t">>, <<"A", "l", "l">>}
FilterTagLists == {NullTags, << <<"x">> >>, << <<"Y">>, <<"X">> >>}

FilterPosts ==
    {[slug |-> <<"1">>, title |-> t, content |-> c, category |-> cat, tags |-> tags,
      author |-> Null] :
        t \in FilterTitles, c \in FilterContents, cat \in FilterCategories,
        tags \in FilterTagLists}

\* the selections the controls can leave: 'all' or a category, no tag or a tag
CategorySelections == {AllCategory, <<"T">>, <<"A", "l", "l">>}
TagSelections == {Null, <<"x">>, <<"Y">>}
QuerySelections == StringsUpTo({"a", "B", " "}, MaxQueryLen)

InitFilter ==
    /\ \E post \in FilterPosts : allPosts = <<post>>
    /\ selectedCategory \in CategorySelections
    /\ selectedTag \in TagSelections
    /\ searchQuery \in QuerySelections
    /\ IdlePage
    /\ callArgs = <<>>
    /\ callResult = <<>>

CallPassesFilters ==
    /\ callArgs = <<>>
    /\ callArgs' = <<allPosts[1]>>
    /\ callResult' = <<passesFilters(allPosts[1], selectedCategory, selectedTag, searchQuery)>>
    /\ UNCHANGED <<viewState, page>>

NextFilter == CallPassesFilters

SpecFilter == InitFilter /\ [][NextFilter]_vars

\* ----------------------------------------- direct calls of getRelatedPosts

RelatedPost(slug, category, tags) ==
    [slug |-> slug, title |-> slug, content |-> Null, category |-> category,
     tags |-> tags, author |-> Null]

\* a post that repeats a tag, posts with and without a category, tags and
\* categories that differ in case only, two posts that tie for post 1
RelatedPool ==
    {RelatedPost(<<"1">>, <<"T">>, << <<"x">>, <<"x">>, <<"y">> >>),
     RelatedPost(<<"2">>, Null, << <<"X">> >>),
     RelatedPost(<<"3">>, <<"t">>, << <<"y">> >>),
     RelatedPost(<<"4">>, Null, NullTags),
     RelatedPost(<<"5">>, <<"T">>, << <<"Y">> >>)}

InitRelated ==
    /\ allPosts \in CollectionsOf(RelatedPool, MaxCollection)
    /\ selectedCategory = AllCategory
    /\ selectedTag = Null
    /\ searchQuery = <<>>
    /\ IdlePage
    /\ callArgs = <<>>
    /\ callResult = <<>>

CallGetRelatedPosts(currentPost, max) ==
    /\ callArgs = <<>>
    /\ callArgs' = <<currentPost, max>>
    /\ callResult' = <<getRelatedPosts(allPosts, currentPost, max)>>
    /\ UNCHANGED <<viewState, page>>

NextRelated ==
    \E currentPost \in RelatedPool, max \in 0..MaxRelated : CallGetRelatedPosts(currentPost, max)

SpecRelated == InitRelated /\ [][NextRelated]_vars

\* --------------------------------------- direct calls of decodeHtmlEntities

RECURSIVE EscapeTimes(_, _)
EscapeTimes(s, k) == IF k = 0 THEN s ELSE escapeHtml(EscapeTimes(s, k - 1))

\* Contents before the storage layer escaped them: markup, text with the
\* special characters, and text that spells a character reference itself
\* (with and without its ";", named and numeric).
DecodeBases ==
    {<<>>, <<"a">>, <<"<", "b", ">">>, <<"a", "&", "b">>, <<"'", "\"">>,
     <<"&", "l", "t">>, <<"&", "g", "t", ";", "a">>, <<"&", "#", "6", "0", ";">>}

InitDecode ==
    /\ allPosts = <<>>
    /\ selectedCategory = AllCategory
    /\ selectedTag = Null
    /\ searchQuery = <<>>
    /\ IdlePage
    /\ \E s \in DecodeBases, k \in 0..MaxEscapes :
          callArgs = [input |-> EscapeTimes(s, k), base |-> s, escapes |-> k]
    /\ callResult = <<>>

\* decodeHtmlEntities(x)
CallDecode ==
    /\ callResult = <<>>
    /\ callResult' = <<decodeHtmlEntities(callArgs.input)>>
    /\ UNCHANGED <<viewState, page, callArgs>>

\* decodeHtmlEntities(decodeHtmlEntities(x))
CallDecodeAgain ==
    /\ Len(callResult) = 1
    /\ callResult' = callResult \o <<decodeHtmlEntities(callResult[1])>>
    /\ UNCHANGED <<viewState, page, callArgs>>

NextDecode == CallDecode \/ CallDecodeAgain

SpecDecode == InitDecode /\ [][NextDecode]_vars

\* ================================================================== claims

\* the posts of the cards in the grid, in order
GridPosts ==
    IF grid.cards = <<>> THEN <<>> ELSE [i \in 1..Len(grid.cards) |-> grid.cards[i].post]

\* a load has succeeded: the filter controls exist
Loaded == AllCategory \in DOMAIN categoryButtons

\* C1: in every reachable state the cards of the grid are exactly the posts
\* of allPosts that pass the filters under the current selectedCategory,
\* selectedTag and searchQuery, in the order of allPosts.
C1_GridIsFilteredPosts ==
    GridPosts = SelectSeq(allPosts,
                          LAMBDA p : passesFilters(p, selectedCategory, selectedTag, searchQuery))

\* C1 witness: after a load of two posts, a category click and a search input,
\* the grid shows the second post only.
C1_Witness ==
    /\ Loaded
    /\ Len(allPosts) = 2
    /\ selectedCategory # AllCategory
    /\ Truthy(Trim(searchQuery))
    /\ Len(grid.cards) = 1
    /\ grid.cards[1].post = allPosts[2]

ReturnedPosts(resp) == IF resp.isArray THEN resp.data ELSE <<>>

ErrorShown(message) == loadingHidden /\ ~errorHidden /\ errorText = message

\* C2: every step that completes a load ends in exactly one of two outcomes.
\* Ready, when the data source returned no error: posts is the returned
\* sequence (empty when no sequence came), both indicators are hidden, the
\* filter controls are built and the grid is rendered.  Error, when it returned
\* an error or the query threw: the loading indicator is hidden, the error
\* indicator shows the service-error or the unexpected-failure message
\* respectively, and posts and the three selections are as before the step.
C2_LoadOutcomes ==
    [][(awaiting' = awaiting - 1) =>
          LET ready ==
                  /\ loadingHidden'
                  /\ errorHidden'
                  /\ DOMAIN categoryButtons' = {AllCategory} \cup CategorySet(allPosts')
                  /\ DOMAIN tagButtons' = TagSet(allPosts')
                  /\ grid' = RenderedGrid(allPosts', selectedCategory', selectedTag',
                                          searchQuery')
              error(message) ==
                  /\ loadingHidden'
                  /\ ~errorHidden'
                  /\ errorText' = message
                  /\ UNCHANGED viewState
          IN  /\ \A resp \in Responses :
                    /\ LoadSucceeds(resp) => (allPosts' = ReturnedPosts(resp) /\ ready)
                    /\ LoadServiceError(resp) => error(ServiceErrorMessage)
              /\ LoadThrows => error(UnexpectedErrorMessage)
              /\ ready # (error(ServiceErrorMessage) \/ error(UnexpectedErrorMessage))]_vars

\* C2 witness: both loads are over, the first one succeeded with posts and the
\* last one threw; the posts are kept and the unexpected-failure message shows.
C2_Witness ==
    /\ started = 2
    /\ awaiting = 0
    /\ allPosts # <<>>
    /\ Loaded
    /\ ErrorShown(UnexpectedErrorMessage)

\* the three checks as the claim words them, over a haystack
RefCategoryCheck(post) ==
    \/ selectedCategory = AllCategory
    \/ (post.category # Null /\ ToLowerCase(post.category) = ToLowerCase(selectedCategory))

RefTagCheck(post) ==
    \/ selectedTag = Null
    \/ \E i \in DOMAIN TagsOf(post) : ToLowerCase(TagsOf(post)[i]) = ToLowerCase(selectedTag)

RefSearchCheck(haystack) ==
    \/ \A i \in DOMAIN searchQuery : IsSpace(searchQuery[i])
    \/ \E i \in 1..Len(haystack) :
          StartsWithAt(ToLowerCase(haystack), i, ToLowerCase(searchQuery))

RefPassesFilters(post, haystack) ==
    RefCategoryCheck(post) /\ RefTagCheck(post) /\ RefSearchCheck(haystack)

\* C3 as stated: passesFilters is the conjunction of the category check, the
\* tag check and the search check, the search check looking for the lowercased
\* query in the lowercased concatenation of post.title and the plain text of
\* post.content.
C3_Original ==
    callResult # <<>> =>
        callResult[1] = RefPassesFilters(callArgs[1],
                            OrEmpty(callArgs[1].title) \o getPlainText(callArgs[1].content))

\* C3 as amended: the same conjunction, the search check looking for the
\* lowercased query in the lowercased concatenation of post.title, one space
\* and the plain text of post.content.
C3_PassesFiltersWithSeparator ==
    callResult # <<>> =>
        callResult[1] = RefPassesFilters(callArgs[1],
                            OrEmpty(callArgs[1].title) \o <<" ">>
                                \o getPlainText(callArgs[1].content))

\* C3 witness: a post passes with a category, a tag and a query selected, the
\* query ending in the space that only the separator can match.
C3_Witness ==
    /\ callResult = <<TRUE>>
    /\ selectedCategory # AllCategory
    /\ selectedTag # Null
    /\ searchQuery = <<"a", " ">>
    /\ callArgs[1].title = <<"a">>
    /\ callArgs[1].content = Null

\* C4: a category click sets selectedCategory to the button's category and
\* selectedTag to none; a tag click leaves selectedCategory as it is; neither
\* changes searchQuery or allPosts; a search input changes searchQuery only.
C4_HandlerFrames ==
    [][/\ \A cat \in DOMAIN categoryButtons :
             \/ /\ selectedCategory' = cat
                /\ selectedTag' = Null
                /\ UNCHANGED <<searchQuery, allPosts>>
             \/ ~CategoryClick(cat)
       /\ \A tag \in DOMAIN tagButtons :
             \/ UNCHANGED <<selectedCategory, searchQuery, allPosts>>
             \/ ~TagClick(tag)
       /\ \A value \in SearchInputs :
             \/ UNCHANGED <<selectedCategory, selectedTag, allPosts>>
             \/ ~SearchInput(value)]_vars

\* C4 witness: a category was clicked, then a tag (the category stayed), with
\* a query typed.
C4_Witness ==
    /\ selectedCategory # AllCategory
    /\ selectedTag # Null
    /\ tagClicks.clicks = 1
    /\ searchQuery # <<>>

\* C5 as stated: after two clicks in succession on the button of one tag,
\* selectedTag is what it was before the first click.
C5_Original == tagClicks.clicks = 2 => selectedTag = tagClicks.priorTag

\* C5 as amended: two clicks in succession on the button of tag T restore
\* selectedTag when it was none or exactly T before the first click; when it
\* was another tag, they leave none selected if that tag differs from T in
\* more than case, and T selected if it differs from T in case only.
C5_ToggleLaw ==
    tagClicks.clicks = 2 =>
        LET prior == tagClicks.priorTag
            T == tagClicks.tag
        IN  /\ prior \in {Null, T} => selectedTag = prior
            /\ (prior # Null /\ ToLowerCase(prior) # ToLowerCase(T)) => selectedTag = Null
            /\ (prior # T /\ ToLowerCase(prior) = ToLowerCase(T)) => selectedTag = T

\* C5 witness: tag T was selected, was clicked twice, and is selected again.
C5_Witness ==
    /\ tagClicks.clicks = 2
    /\ tagClicks.priorTag = tagClicks.tag
    /\ selectedTag = tagClicks.tag

\* the score of post p for the target, as getRelatedPosts computes it: 2 for
\* every entry of the target's tags that occurs, case ignored, among p's tags
\* (an entry the target repeats counts each time), plus 1 when the target has
\* a category and p's category equals it, case ignored
EntryScore(target, p) ==
    LET tTags == TagsOf(target)
        pTags == TagsOf(p)
        hits == {i \in DOMAIN tTags :
                    \E j \in DOMAIN pTags : ToLowerCase(tTags[i]) = ToLowerCase(pTags[j])}
    IN  2 * Cardinality(hits)
        + (IF Truthy(target.category) /\ p.category # Null
              /\ ToLowerCase(p.category) = ToLowerCase(target.category)
           THEN 1 ELSE 0)

\* the score as the claim words it: 2 for every distinct tag shared, plus 1
\* when the two categories are equal, case ignored
DistinctScore(target, p) ==
    LET tTags == {ToLowerCase(TagsOf(target)[i]) : i \in DOMAIN TagsOf(target)}
        pTags == {ToLowerCase(TagsOf(p)[j]) : j \in DOMAIN TagsOf(p)}
    IN  2 * Cardinality(tTags \cap pTags)
        + (IF ToLowerCase(OrEmpty(p.category)) = ToLowerCase(OrEmpty(target.category))
           THEN 1 ELSE 0)

\* the posts of seq that score v, v - 1, ..., 1, each level in the order of seq
RECURSIVE ByLevel(_, _, _, _)
ByLevel(Sc(_, _), target, seq, v) ==
    IF v <= 0 THEN <<>>
    ELSE SelectSeq(seq, LAMBDA p : Sc(target, p) = v) \o ByLevel(Sc, target, seq, v - 1)

FirstN(seq, n) == [i \in 1..(IF n < Len(seq) THEN n ELSE Len(seq)) |-> seq[i]]

\* the reference of the claim, under the score Sc
RefRelated(Sc(_, _), posts, target, max) ==
    LET others == SelectSeq(posts, LAMBDA p : p.slug # target.slug)
        ranked == ByLevel(Sc, target, others, 2 * Len(TagsOf(target)) + 1)
    IN  IF ranked # <<>> THEN FirstN(ranked, max) ELSE FirstN(others, max)

C7_Original ==
    callResult # <<>> =>
        callResult[1] = RefRelated(DistinctScore, allPosts, callArgs[1], callArgs[2])

\* C7 as amended: getRelatedPosts equals the reference under the score
\* 2 x (entries of the target's tags found among the post's tags, a repeated
\* entry counted each time) + (1 if the target has a category and the post's
\* category equals it): the positive-score posts in descending order of score,
\* ties in collection order, cut to the first max; the first max non-target
\* posts in collection order when none scores.
C7_RelatedEqualsReference ==
    callResult # <<>> =>
        callResult[1] = RefRelated(EntryScore, allPosts, callArgs[1], callArgs[2])

\* C7 witness: the target repeats a tag, which lifts the post sharing it over
\* the post that comes first and shares a tag and the category.
C7_Witness ==
    /\ callResult # <<>>
    /\ Len(allPosts) = 3
    /\ callArgs[2] = 3
    /\ \E i, j \in DOMAIN TagsOf(callArgs[1]) :
          i # j /\ TagsOf(callArgs[1])[i] = TagsOf(callArgs[1])[j]
    /\ callResult[1] = <<allPosts[3], allPosts[2]>>
    /\ DistinctScore(callArgs[1], allPosts[2]) > DistinctScore(callArgs[1], allPosts[3])

\* C8: while a load is in flight and none completes, the loading indicator,
\* once visible, stays visible whatever the user does.
C8_LoadingStaysVisible ==
    [][(awaiting > 0 /\ UNCHANGED loader /\ ~loadingHidden) => ~loadingHidden']_vars

\* a string no decoding pass changes: it spells no character reference
ReferenceFree(s) == TextareaValue(s, 1) = s

\* C9 as stated: decodeHtmlEntities(decodeHtmlEntities(x)) equals
\* decodeHtmlEntities(x) for every x.
C9_Original == Len(callResult) = 2 => callResult[2] = callResult[1]

\* C9 as amended: for every x that is a string spelling no character reference,
\* entity-escaped at most 5 times, decodeHtmlEntities(x) is that string and
\* decodeHtmlEntities(decodeHtmlEntities(x)) equals decodeHtmlEntities(x).
C9_IdempotentUpToFiveEscapes ==
    (Len(callResult) = 2 /\ callArgs.escapes <= MaxDecodeIterations
        /\ ReferenceFree(callArgs.base)) =>
        (callResult[1] = callArgs.base /\ callResult[2] = callResult[1])

\* C9 witness: markup escaped 5 times is decoded back, and decoding again
\* leaves it.
C9_Witness ==
    /\ Len(callResult) = 2
    /\ callArgs.escapes = MaxDecodeIterations
    /\ callArgs.base = <<"<", "b", ">">>
    /\ callResult = <<callArgs.base, callArgs.base>>

CategoryLabel(post) == IF Truthy(post.category) THEN post.category ELSE DefaultLabel

\* C10: wherever a post's title, category or author is rendered (grid card,
\* modal header and footer, related entries of the modal), the markup holds
\* escapeHtml of the field.
C10_ShortFieldsEscaped ==
    /\ \A k \in DOMAIN grid.cards :
          /\ grid.cards[k].titleHtml = escapeHtml(grid.cards[k].post.title)
          /\ grid.cards[k].categoryHtml = escapeHtml(CategoryLabel(grid.cards[k].post))
    /\ modalContent # <<>> =>
          LET m == modalContent[1]
          IN  /\ m.titleHtml = escapeHtml(m.post.title)
              /\ m.categoryHtml = escapeHtml(CategoryLabel(m.post))
              /\ m.authorHtml = escapeHtml(m.post.author)
              /\ \A k \in DOMAIN m.related :
                    m.related[k].titleHtml = escapeHtml(m.related[k].post.title)

\* C11: whatever cards, related entries and close controls were used, the
\* body has the scroll lock (class no-scroll) exactly when the modal is visible
\* (no class hidden, class flex); and Escape on a closed modal changes nothing
\* in the page or the view state.
C11_ScrollLockFollowsModal ==
    /\ [](noScroll = ~modalHidden /\ modalFlex = ~modalHidden)
    /\ [][\/ ~modalHidden
          \/ UNCHANGED <<viewState, indicators, grid, filterControls, modal, loader>>
          \/ ~Keydown("Escape")]_vars

\* C11 witness: a post with a related post was opened and the modal was closed
\* again: it is hidden and the body scrolls.
C11_Witness ==
    /\ modalContent # <<>>
    /\ modalContent[1].related # <<>>
    /\ modalHidden
    /\ ~modalFlex
    /\ ~noScroll

\* invocations of loadPosts ran concurrently, all of them have completed, and
\* nothing has happened since
RaceOver == race.active /\ awaiting = 0

\* how the invocation that completed last ended
LastOutcome == race.outcomes[Len(race.outcomes)]

\* the posts returned to the latest invocation that succeeded; what allPosts
\* was before the invocations when none did
LastReadyPosts ==
    LET ready == {i \in DOMAIN race.outcomes : race.outcomes[i].ready}
    IN  IF ready = {} THEN race.before
        ELSE race.outcomes[CHOOSE i \in ready : \A j \in ready : j <= i].posts

\* C12 as stated: once overlapping loads have all completed, posts, grid and
\* the two indicators are what the load that completed last would have
\* produced alone: after a success its posts, the grid rendered from them and
\* both indicators hidden; after a failure the posts from before the loads,
\* the grid of those, the loading indicator hidden and the error indicator
\* showing its message.
C12_Original ==
    RaceOver =>
        /\ loadingHidden
        /\ LastOutcome.ready =>
              /\ allPosts = LastOutcome.posts
              /\ errorHidden
        /\ ~LastOutcome.ready =>
              /\ allPosts = race.before
              /\ ~errorHidden
              /\ errorText = LastOutcome.message
        /\ GridPosts = VisiblePosts(allPosts, selectedCategory, selectedTag, searchQuery)

\* C12 as amended: once overlapping loads have all completed, the loading
\* indicator is hidden; posts are those returned to the latest load that
\* succeeded (those from before the loads when none succeeded) and the grid
\* shows the posts among them that pass the filters; the error indicator is as
\* the load that completed last left it: hidden after a success, showing that
\* load's message after a failure.
C12_LastSuccessWins ==
    RaceOver =>
        /\ loadingHidden
        /\ allPosts = LastReadyPosts
        /\ GridPosts = VisiblePosts(allPosts, selectedCategory, selectedTag, searchQuery)
        /\ LastOutcome.ready => errorHidden
        /\ ~LastOutcome.ready => (~errorHidden /\ errorText = LastOutcome.message)

\* C12 witness: of two overlapping loads the first to complete returned posts
\* and the second failed: the grid shows the posts under the error message.
C12_Witness ==
    /\ RaceOver
    /\ Len(race.outcomes) = 2
    /\ race.outcomes[1].ready
    /\ race.outcomes[1].posts # <<>>
    /\ ~race.outcomes[2].ready
    /\ allPosts = race.outcomes[1].posts
    /\ grid.cards # <<>>
    /\ ~errorHidden

=============================================================================
